---- MODULE Spec2Model ----
(***************************************************************************)
(* tdyne-peer-id: the PeerId newtype over [u8; 20], its constructors, its  *)
(* byte view, its sanitised rendering (to_safe / Display) and the          *)
(* BadPeerIdLengthError returned by the fallible constructor.              *)
(*                                                                         *)
(* Bytes are integers 0..255, byte slices and arrays are sequences of      *)
(* bytes, a Rust String is the sequence of its chars (Unicode scalar       *)
(* values as integers).  A tuple struct S(x) is the 1-tuple <<x>>, its     *)
(* field .0 is index 1.                                                    *)
(***************************************************************************)
EXTENDS Integers, Sequences, FiniteSets, TLC

VARIABLES
    slice,   \* the caller's byte buffer, the argument of the constructors
    ids,     \* the PeerId values the caller holds, each with how it was made
    out,     \* the last operation and what it returned
    writes   \* how many writes through the public field .0 were made

vars == <<slice, ids, out, writes>>

(***************************************************************************)
(* Program constants.                                                      *)
(***************************************************************************)
\* the N of [u8; N] in `pub struct PeerId(pub [u8; 20])`
PEER_ID_LEN == 20

\* char::REPLACEMENT_CHARACTER, U+FFFD, what from_utf8_lossy substitutes
REPLACEMENT_CHARACTER == 65533

\* '?', the second arm of the match in to_safe
QUESTION_MARK == 63

\* the traits of `#[derive(Debug, Clone, Copy)]` on PeerId
PeerId_derive == {"Debug", "Clone", "Copy"}

\* the traits of `#[derive(Debug, Clone, Copy, Eq, PartialEq)]` on the error
BadPeerIdLengthError_derive == {"Debug", "Clone", "Copy", "Eq", "PartialEq"}

(***************************************************************************)
(* Bounds of the model.                                                    *)
(***************************************************************************)
\* longest byte slice handed to try_from
MaxSliceLen == 22
\* longest freely chosen run of bytes inside a slice of the construction runs
MaxConvVar == 2
\* longest freely chosen run of UTF-8 relevant bytes inside a rendered array
MaxVar == 3
\* longest freely chosen run of ASCII bytes inside a rendered array
MaxAsciiVar == 1
\* most PeerId values the caller holds at once
MaxIds == 2
\* most writes through the public field in one run
MaxWrites == 1

(***************************************************************************)
(* Inputs.                                                                 *)
(***************************************************************************)
SeqsUpTo(S, n) == UNION {[1..k -> S] : k \in 0..n}

Fill(n, f) == [i \in 1..n |-> f]

\* a slice of n bytes: the run w at its front or at its back, f elsewhere
Pad(n, w, f, side) ==
    IF side = "front" THEN w \o Fill(n - Len(w), f) ELSE Fill(n - Len(w), f) \o w

Sides == {"front", "back"}

\* 0x00, 'a', 0x80, 0xFF
ConvBytes == {0, 97, 128, 255}

ConvSlices ==
    UNION {{Pad(n, w, f, "front") :
                f \in ConvBytes,
                w \in {x \in SeqsUpTo(ConvBytes, MaxConvVar) : Len(x) <= n}} :
           n \in 0..MaxSliceLen}

\* 'a', the continuation bytes 0x80 and 0xA0, the leads 0xC2 0xE0 0xED 0xF0
\* 0xF4 (0xE0 and 0xF0 take 0xA0 but not 0x80 as their second byte, 0xED and
\* 0xF4 take 0x80 but not 0xA0), and 0xFF, never valid
Utf8Bytes == {97, 128, 160, 194, 224, 237, 240, 244, 255}

\* 'a' and 0x80 around the run: a run may be completed or broken by its
\* neighbours, and a run at the back is cut off by the end of the array
Utf8Fills == {97, 128}

\* the ends of the ranges of to_safe's match and their neighbours:
\* NUL * , - . / 0 9 : @ A Z [ ` a z { DEL
AsciiBytes == {0, 42, 44, 45, 46, 47, 48, 57, 58, 64, 65, 90, 91, 96, 97, 122, 123, 127}

\* '.' and NUL around the run
AsciiFills == {46, 0}

\* the arrays of the crate's documentation and tests, and 20 zero bytes:
\* "-TR0000-*\x00\x01d7xkqq04n", "-TR0072-abvd7xkqq04n", "-TR0072-*\x00\x01d7xkqq04n"
Examples ==
    { <<45, 84, 82, 48, 48, 48, 48, 45, 42, 0, 1, 100, 55, 120, 107, 113, 113, 48, 52, 110>>,
      <<45, 84, 82, 48, 48, 55, 50, 45, 97, 98, 118, 100, 55, 120, 107, 113, 113, 48, 52, 110>>,
      <<45, 84, 82, 48, 48, 55, 50, 45, 42, 0, 1, 100, 55, 120, 107, 113, 113, 48, 52, 110>>,
      Fill(PEER_ID_LEN, 0) }

RenderArrays ==
    {Pad(PEER_ID_LEN, w, f, side) :
        w \in SeqsUpTo(Utf8Bytes, MaxVar), f \in Utf8Fills, side \in Sides}
    \cup {Pad(PEER_ID_LEN, w, f, "front") :
        w \in SeqsUpTo(AsciiBytes, MaxAsciiVar), f \in AsciiFills}
    \cup Examples

\* the arrays of the runs that copy and overwrite values
StoreArrays == {Fill(PEER_ID_LEN, 97), CHOOSE a \in Examples : a[9] = 97}

\* where and what a caller writes through the public field
WritePositions == {1, PEER_ID_LEN}
WriteBytes == {0, 255}

\* lengths a caller may put into BadPeerIdLengthError(n) directly
\* (try_from supplies the others): the expected length, values with more
\* digits, zero digits inside, and 2^31 - 1
ErrLens == {20, 99, 100, 1001, 65536, 2147483647}

(***************************************************************************)
(* Result<T, E>                                                            *)
(***************************************************************************)
Ok(v) == [tag |-> "Ok", val |-> v]
Err(e) == [tag |-> "Err", val |-> e]

(***************************************************************************)
(* errors.rs                                                               *)
(***************************************************************************)
BadPeerIdLengthError(n) == <<n>>

\* "Invalid Peer Id length, expected a 20 bytes long slice, got "
FMT_HEAD ==
    <<73, 110, 118, 97, 108, 105, 100, 32, 80, 101, 101, 114, 32, 73, 100, 32,
      108, 101, 110, 103, 116, 104, 44, 32, 101, 120, 112, 101, 99, 116, 101,
      100, 32, 97, 32, 50, 48, 32, 98, 121, 116, 101, 115, 32, 108, 111, 110,
      103, 32, 115, 108, 105, 99, 101, 44, 32, 103, 111, 116, 32>>

\* " bytes"
FMT_TAIL == <<32, 98, 121, 116, 101, 115>>

\* fmt_usize with the tens and above dropped
fmt_usize_last_digit(n) == <<48 + (n % 10)>>

\* the `{}` of a usize: its decimal digits, most significant first
RECURSIVE fmt_usize(_)
fmt_usize(n) ==
    IF n < 10 THEN <<48 + n>> ELSE fmt_usize(n \div 10) \o <<48 + (n % 10)>>

\* write!(f, ...): the pieces appended to the formatter's buffer f
BadPeerIdLengthError_fmt(self, f) == f \o FMT_HEAD \o fmt_usize(self[1]) \o FMT_TAIL

\* ToString::to_string for the error: Display::fmt into an empty String
BadPeerIdLengthError_to_string(self) == BadPeerIdLengthError_fmt(self, <<>>)

(***************************************************************************)
(* lib.rs: construction and the byte view                                  *)
(***************************************************************************)
PeerId(value) == <<value>>

\* impl From<[u8; 20]> for PeerId
from(value) == PeerId(value)

\* to_owned that keeps seven bits of each byte
to_owned_7bit(value) == [i \in 1..Len(value) |-> value[i] % 128]

\* impl From<&[u8; 20]> for PeerId; value.to_owned() copies the array
to_owned(value) == [i \in 1..Len(value) |-> value[i]]
from_ref(value) == PeerId(to_owned(value))

\* impl AsRef<[u8; 20]> for PeerId
as_ref(self) == self[1]

\* try_into that wants more than 20 bytes and takes the first 20
try_into_longer(value) ==
    IF Len(value) > PEER_ID_LEN THEN Ok(SubSeq(value, 1, PEER_ID_LEN))
    ELSE Err("TryFromSliceError")

\* <[u8; 20]>::try_from(&[u8]): the array when the lengths agree
try_into(value) ==
    IF Len(value) = PEER_ID_LEN THEN Ok(to_owned(value)) ELSE Err("TryFromSliceError")

\* try_from whose error records the expected length, not the slice's
try_from_expected_len(value) ==
    LET r == try_into(value)
    IN  IF r.tag = "Ok" THEN Ok(<<r.val>>)
        ELSE Err(<<PEER_ID_LEN>>)

\* Result::map(Self) then Result::map_err(|_| BadPeerIdLengthError(value.len()))
try_from(value) ==
    LET r == try_into(value)
    IN  IF r.tag = "Ok" THEN Ok(PeerId(r.val))
        ELSE Err(BadPeerIdLengthError(Len(value)))

(***************************************************************************)
(* lib.rs: to_safe and Display                                             *)
(***************************************************************************)
\* core::str::utf8_char_width
utf8_char_width(b) ==
    IF b < 128 THEN 1
    ELSE IF b >= 194 /\ b <= 223 THEN 2
    ELSE IF b >= 224 /\ b <= 239 THEN 3
    ELSE IF b >= 240 /\ b <= 244 THEN 4
    ELSE 0

\* safe_get of Utf8Chunks::next: 0 past the end
safe_get(xs, i) == IF i >= 1 /\ i <= Len(xs) THEN xs[i] ELSE 0

\* byte & 192 == TAG_CONT_U8
is_cont(b) == b >= 128 /\ b <= 191

\* the (first, second) byte pairs Utf8Chunks::next accepts for width 3
second3_ok(b, c) ==
    \/ b = 224 /\ c >= 160 /\ c <= 191
    \/ b >= 225 /\ b <= 236 /\ c >= 128 /\ c <= 191
    \/ b = 237 /\ c >= 128 /\ c <= 159
    \/ b >= 238 /\ b <= 239 /\ c >= 128 /\ c <= 191

\* the (first, second) byte pairs Utf8Chunks::next accepts for width 4
second4_ok(b, c) ==
    \/ b = 240 /\ c >= 144 /\ c <= 191
    \/ b >= 241 /\ b <= 243 /\ c >= 128 /\ c <= 191
    \/ b = 244 /\ c >= 128 /\ c <= 143

\* the scalar value of a well-formed sequence
decode2(a, b) == (a % 32) * 64 + (b % 64)
decode3(a, b, c) == (a % 16) * 4096 + (b % 64) * 64 + (c % 64)
decode4(a, b, c, d) == (a % 8) * 262144 + (b % 64) * 4096 + (c % 64) * 64 + (d % 64)

\* the decoding with one U+FFFD for every byte of a broken-off piece
RECURSIVE lossy_from_bytewise(_, _)
lossy_from_bytewise(v, i) ==
    IF i > Len(v) THEN <<>>
    ELSE LET byte == v[i]
             w == utf8_char_width(byte)
             b1 == safe_get(v, i + 1)
             b2 == safe_get(v, i + 2)
             b3 == safe_get(v, i + 3)
             bad == <<REPLACEMENT_CHARACTER>> \o lossy_from_bytewise(v, i + 1)
         IN  IF byte < 128 THEN <<byte>> \o lossy_from_bytewise(v, i + 1)
             ELSE IF w = 2 /\ is_cont(b1)
                 THEN <<decode2(byte, b1)>> \o lossy_from_bytewise(v, i + 2)
             ELSE IF w = 3 /\ second3_ok(byte, b1) /\ is_cont(b2)
                 THEN <<decode3(byte, b1, b2)>> \o lossy_from_bytewise(v, i + 3)
             ELSE IF w = 4 /\ second4_ok(byte, b1) /\ is_cont(b2) /\ is_cont(b3)
                 THEN <<decode4(byte, b1, b2, b3)>> \o lossy_from_bytewise(v, i + 4)
             ELSE bad

\* String::from_utf8_lossy(v).chars() from byte i on: each well-formed sequence
\* is its char, each broken-off piece (the bytes Utf8Chunks::next had consumed
\* when it gave up) is one U+FFFD
RECURSIVE lossy_from(_, _)
lossy_from(v, i) ==
    IF i > Len(v) THEN <<>>
    ELSE LET byte == v[i]
             w == utf8_char_width(byte)
             b1 == safe_get(v, i + 1)
             b2 == safe_get(v, i + 2)
             b3 == safe_get(v, i + 3)
             bad(k) == <<REPLACEMENT_CHARACTER>> \o lossy_from(v, i + k)
         IN  IF byte < 128 THEN <<byte>> \o lossy_from(v, i + 1)
             ELSE IF w = 2 THEN
                 IF ~is_cont(b1) THEN bad(1)
                 ELSE <<decode2(byte, b1)>> \o lossy_from(v, i + 2)
             ELSE IF w = 3 THEN
                 IF ~second3_ok(byte, b1) THEN bad(1)
                 ELSE IF ~is_cont(b2) THEN bad(2)
                 ELSE <<decode3(byte, b1, b2)>> \o lossy_from(v, i + 3)
             ELSE IF w = 4 THEN
                 IF ~second4_ok(byte, b1) THEN bad(1)
                 ELSE IF ~is_cont(b2) THEN bad(2)
                 ELSE IF ~is_cont(b3) THEN bad(3)
                 ELSE <<decode4(byte, b1, b2, b3)>> \o lossy_from(v, i + 4)
             ELSE bad(1)

from_utf8_lossy(v) == lossy_from(v, 1)

\* the match with the two letter ranges merged into 'A'..='z'
safe_char_merged_ranges(c) ==
    IF \/ c >= 65 /\ c <= 122
       \/ c >= 48 /\ c <= 57
       \/ c = 45
       \/ c = 46
    THEN c
    ELSE QUESTION_MARK

\* the closure of to_safe's map: 'a'..='z' | 'A'..='Z' | '0'..='9' | '-' | '.' => c
safe_char(c) ==
    IF \/ c >= 97 /\ c <= 122
       \/ c >= 65 /\ c <= 90
       \/ c >= 48 /\ c <= 57
       \/ c = 45
       \/ c = 46
    THEN c
    ELSE QUESTION_MARK

\* to_safe that drops the characters it should replace (filter for map)
IsKept(c) == safe_char(c) = c
to_safe_filter(self) == SelectSeq(from_utf8_lossy(self[1]), IsKept)

\* PeerId::to_safe
to_safe(self) ==
    LET s == from_utf8_lossy(self[1])
    IN  [i \in 1..Len(s) |-> safe_char(s[i])]

\* Display that writes the lossy decoding itself
PeerId_fmt_unsanitised(self, f) == f \o from_utf8_lossy(self[1])

\* impl fmt::Display for PeerId: write!(f, "{}", self.to_safe())
PeerId_fmt(self, f) == f \o to_safe(self)

\* ToString::to_string: Display::fmt into an empty String
PeerId_to_string(self) == PeerId_fmt(self, <<>>)

(***************************************************************************)
(* Construction: the caller holds one byte slice and applies the           *)
(* constructors, the byte view and the error's Display to it.              *)
(***************************************************************************)
Held(v, how) == [val |-> v, via |-> how]

Init ==
    /\ slice \in ConvSlices
    /\ ids = <<>>
    /\ out = [op |-> "none"]
    /\ writes = 0

\* PeerId::try_from(slice); an Ok value is kept, an Err leaves nothing to keep
TryFrom ==
    /\ Len(ids) < MaxIds
    /\ LET r == try_from(slice)
       IN  /\ out' = [op |-> "try_from", res |-> r]
           /\ ids' = IF r.tag = "Ok" THEN Append(ids, Held(r.val, "try_from")) ELSE ids
    /\ UNCHANGED <<slice, writes>>

\* PeerId::from(array): only a [u8; 20] type-checks
From ==
    /\ Len(slice) = PEER_ID_LEN
    /\ Len(ids) < MaxIds
    /\ ids' = Append(ids, Held(from(slice), "from"))
    /\ out' = [op |-> "from"]
    /\ UNCHANGED <<slice, writes>>

\* PeerId::from(&array)
FromRef ==
    /\ Len(slice) = PEER_ID_LEN
    /\ Len(ids) < MaxIds
    /\ ids' = Append(ids, Held(from_ref(slice), "from_ref"))
    /\ out' = [op |-> "from_ref"]
    /\ UNCHANGED <<slice, writes>>

\* ids[i].as_ref()
AsRef(i) ==
    /\ out' = [op |-> "as_ref", of |-> i, res |-> as_ref(ids[i].val)]
    /\ UNCHANGED <<slice, ids, writes>>

\* BadPeerIdLengthError(n) built by the caller through its public field
MakeError(n) ==
    /\ out' = [op |-> "error", res |-> BadPeerIdLengthError(n)]
    /\ UNCHANGED <<slice, ids, writes>>

\* e.to_string() of the error the caller holds
ErrToString ==
    /\ \/ out.op = "error"
       \/ out.op = "try_from" /\ out.res.tag = "Err"
    /\ LET e == IF out.op = "error" THEN out.res ELSE out.res.val
       IN  out' = [op |-> "err_to_string", err |-> e,
                   res |-> BadPeerIdLengthError_to_string(e)]
    /\ UNCHANGED <<slice, ids, writes>>

Next ==
    \/ TryFrom
    \/ From
    \/ FromRef
    \/ \E i \in 1..Len(ids) : AsRef(i)
    \/ \E n \in ErrLens : MakeError(n)
    \/ ErrToString

Spec == Init /\ [][Next]_vars

(***************************************************************************)
(* Rendering: the caller makes one PeerId of a 20-byte array and renders   *)
(* it with to_safe and with Display.                                       *)
(***************************************************************************)
InitRender ==
    /\ slice \in RenderArrays
    /\ ids = <<>>
    /\ out = [op |-> "none"]
    /\ writes = 0

\* ids[i].to_safe()
ToSafe(i) ==
    /\ out' = [op |-> "to_safe", of |-> i, res |-> to_safe(ids[i].val)]
    /\ UNCHANGED <<slice, ids, writes>>

\* ids[i].to_string(), that is format!("{}", ids[i])
Display(i) ==
    /\ out' = [op |-> "to_string", of |-> i, res |-> PeerId_to_string(ids[i].val)]
    /\ UNCHANGED <<slice, ids, writes>>

NextRender ==
    \/ ids = <<>> /\ FromRef
    \/ \E i \in 1..Len(ids) : ToSafe(i)
    \/ \E i \in 1..Len(ids) : Display(i)

SpecRender == InitRender /\ [][NextRender]_vars

(***************************************************************************)
(* Values: the caller holds several PeerIds, copies them, reads them,      *)
(* drops them and, the field being public, overwrites bytes of the ones it *)
(* owns.                                                                   *)
(***************************************************************************)
\* the held values after `ids[i].0[k] = b`: copies are values of their own
\* here written as if a copy shared its bytes with the value it was copied of
write_shared(held, i, k, b) ==
    [j \in 1..Len(held) |->
        IF held[j].val = held[i].val
        THEN [held[j] EXCEPT !.val = <<[held[j].val[1] EXCEPT ![k] = b]>>]
        ELSE held[j]]

\* the held values after `ids[i].0[k] = b`: PeerId is Copy and holds its
\* array in place, so the write reaches the one value assigned to
write(held, i, k, b) ==
    [held EXCEPT ![i].val = <<[held[i].val[1] EXCEPT ![k] = b]>>]

\* the caller fills its buffer with other bytes
Refill(a) ==
    /\ a # slice
    /\ slice' = a
    /\ out' = [op |-> "refill"]
    /\ UNCHANGED <<ids, writes>>

\* let copy = ids[i];  (derive(Clone, Copy))
Copy(i) ==
    /\ Len(ids) < MaxIds
    /\ ids' = Append(ids, Held(ids[i].val, "copy"))
    /\ out' = [op |-> "copy", of |-> i]
    /\ UNCHANGED <<slice, writes>>

\* ids[i].0[k] = b
SetByte(i, k, b) ==
    /\ writes < MaxWrites
    /\ ids' = write(ids, i, k, b)
    /\ writes' = writes + 1
    /\ out' = [op |-> "set_byte", of |-> i]
    /\ UNCHANGED slice

\* the value held last goes out of scope
Drop ==
    /\ Len(ids) > 0
    /\ ids' = SubSeq(ids, 1, Len(ids) - 1)
    /\ out' = [op |-> "drop"]
    /\ UNCHANGED <<slice, writes>>

InitStore ==
    /\ slice \in StoreArrays
    /\ ids = <<>>
    /\ out = [op |-> "none"]
    /\ writes = 0

NextStore ==
    \/ FromRef
    \/ \E a \in StoreArrays : Refill(a)
    \/ \E i \in 1..Len(ids) : Copy(i)
    \/ \E i \in 1..Len(ids) : AsRef(i)
    \/ \E i \in 1..Len(ids) : ToSafe(i)
    \/ \E i \in 1..Len(ids) : Display(i)
    \/ \E i \in 1..Len(ids), k \in WritePositions, b \in WriteBytes : SetByte(i, k, b)
    \/ Drop

SpecStore == InitStore /\ [][NextStore]_vars

(***************************************************************************)
(* Claims about construction, checked under Spec.                          *)
(***************************************************************************)

\* C1: try_from of a slice whose length is not 20 returns the error whose
\* recorded length is the slice's length, and the caller holds no PeerId.
C1_BadLengthIsAnError ==
    (out.op = "try_from" /\ Len(slice) # 20) =>
        /\ out.res.tag = "Err"
        /\ out.res.val = <<Len(slice)>>
        /\ ids = <<>>

C1_Witness ==
    /\ out.op = "try_from"
    /\ Len(slice) = 21
    /\ out.res.tag = "Err"

\* C2: try_from of a slice of exactly 20 bytes succeeds, and its PeerId has
\* the bytes of the PeerId that from and from(&) make of the same 20 bytes.
C2_TryFromAgreesWithFrom ==
    (out.op = "try_from" /\ Len(slice) = 20) =>
        /\ out.res.tag = "Ok"
        /\ out.res.val = from(slice)
        /\ out.res.val = from_ref(slice)
        /\ ids[Len(ids)].val = out.res.val

C2_Witness ==
    /\ out.op = "try_from"
    /\ Len(slice) = 20
    /\ out.res.tag = "Ok"
    /\ \E i, j \in 1..20 : slice[i] = 255 /\ slice[j] = 0

\* C3: as_ref of a PeerId made by from (owned or borrowed) is the 20 bytes it
\* was made of.
C3_FromThenAsRef ==
    (out.op = "as_ref" /\ ids[out.of].via \in {"from", "from_ref"}) =>
        out.res = slice

C3_Witness ==
    /\ out.op = "as_ref"
    /\ ids[out.of].via = "from_ref"
    /\ \E i, j \in 1..20 : slice[i] = 255 /\ slice[j] = 128

(***************************************************************************)
(* What "contains the decimal representation of n" means, stated without   *)
(* the formatter: a run of digits with no leading zero whose value is n.   *)
(***************************************************************************)
IsDigit(c) == c >= 48 /\ c <= 57

RECURSIVE DigitsValue(_)
DigitsValue(d) ==
    IF Len(d) = 0 THEN 0
    ELSE 10 * DigitsValue(SubSeq(d, 1, Len(d) - 1)) + (d[Len(d)] - 48)

IsDecimalOf(d, n) ==
    /\ Len(d) >= 1
    /\ Len(d) <= 10
    /\ \A i \in 1..Len(d) : IsDigit(d[i])
    /\ Len(d) > 1 => d[1] # 48
    /\ DigitsValue(d) = n

ContainsDecimal(text, n) ==
    \E i \in 1..Len(text) :
        /\ IsDigit(text[i])
        /\ \E j \in i..Len(text) :
               /\ j - i < 10
               /\ IsDecimalOf(SubSeq(text, i, j), n)

Contains(text, part) ==
    \E i \in 0..(Len(text) - Len(part)) : SubSeq(text, i + 1, i + Len(part)) = part

\* "expected a 20 bytes long slice"
EXPECTED_PHRASE ==
    <<101, 120, 112, 101, 99, 116, 101, 100, 32, 97, 32, 50, 48, 32, 98, 121,
      116, 101, 115, 32, 108, 111, 110, 103, 32, 115, 108, 105, 99, 101>>

\* C8: the text of BadPeerIdLengthError(n) contains the decimal digits of n
\* and the words "expected a 20 bytes long slice".
C8_ErrorTextNamesLength ==
    out.op = "err_to_string" =>
        /\ ContainsDecimal(out.res, out.err[1])
        /\ Contains(out.res, EXPECTED_PHRASE)

C8_Witness ==
    /\ out.op = "err_to_string"
    /\ out.err = <<21>>
    /\ Len(out.res) = Len(FMT_HEAD) + 2 + Len(FMT_TAIL)

(***************************************************************************)
(* Claims about rendering, checked under SpecRender.                       *)
(***************************************************************************)
\* a-z, A-Z, 0-9, '-', '.'
AllowSet == (97..122) \cup (65..90) \cup (48..57) \cup {45, 46}

Rendered == ids[out.of].val[1]

\* C4: every character of the string to_safe returns is one of a-z, A-Z,
\* 0-9, '-', '.', '?'.
C4_OnlySafeCharacters ==
    out.op = "to_safe" =>
        \A i \in 1..Len(out.res) : out.res[i] \in AllowSet \cup {63}

C4_Witness ==
    /\ out.op = "to_safe"
    /\ \E i \in 1..19 : Rendered[i] = 194 /\ Rendered[i + 1] = 128
    /\ \E i \in 1..20 : Rendered[i] = 255
    /\ \E i \in 1..Len(out.res) : out.res[i] = 97

\* C5: of 20 ASCII bytes to_safe returns 20 characters, character i being
\* byte i when that byte is in the allow-set and '?' otherwise.
C5_AsciiRendersBytewise ==
    (out.op = "to_safe" /\ \A i \in 1..20 : Rendered[i] < 128) =>
        /\ Len(out.res) = 20
        /\ \A i \in 1..20 :
              out.res[i] = IF Rendered[i] \in AllowSet THEN Rendered[i] ELSE 63

C5_Witness ==
    /\ out.op = "to_safe"
    /\ \A i \in 1..20 : Rendered[i] < 128
    /\ \E i, j \in 1..20 : Rendered[i] = 96 /\ Rendered[j] = 46
    /\ Len(out.res) = 20

\* C6: the string Display / to_string gives is the string to_safe returns.
C6_DisplayIsToSafe ==
    out.op = "to_string" => out.res = to_safe(ids[out.of].val)

C6_Witness ==
    /\ out.op = "to_string"
    /\ \E i \in 1..20 : Rendered[i] = 255
    /\ \E i \in 1..Len(out.res) : out.res[i] = 63

(***************************************************************************)
(* Well-formed UTF-8 stated as the table of byte ranges (Unicode, Table    *)
(* 3-7), without the decoder: a row is the ranges of the bytes of one      *)
(* well-formed sequence.                                                   *)
(***************************************************************************)
Cont == 128..191

WellFormedRows ==
    { <<0..127>>,
      <<194..223, Cont>>,
      <<{224}, 160..191, Cont>>,
      <<225..236, Cont, Cont>>,
      <<{237}, 128..159, Cont>>,
      <<238..239, Cont, Cont>>,
      <<{240}, 144..191, Cont, Cont>>,
      <<241..243, Cont, Cont, Cont>>,
      <<{244}, 128..143, Cont, Cont>> }

\* the first m bytes from position i on fit the first m ranges of the row
FitsRow(b, i, row, m) ==
    /\ m <= Len(row)
    /\ i + m - 1 <= Len(b)
    /\ \A k \in 1..m : b[i + k - 1] \in row[k]

\* a well-formed sequence starts at position i; its width
StartsAt(b, i) == \E row \in WellFormedRows : FitsRow(b, i, row, Len(row))

WidthAt(b, i) ==
    LET row == CHOOSE r \in WellFormedRows : FitsRow(b, i, r, Len(r)) IN Len(row)

\* the positions where a code point starts, and the bytes inside code points
CodePoints(b) == {i \in 1..Len(b) : StartsAt(b, i)}

InCodePoint(b, p) ==
    \E i \in (p - 3)..p : i >= 1 /\ StartsAt(b, i) /\ p < i + WidthAt(b, i)

InvalidBytes(b) == {p \in 1..Len(b) : ~InCodePoint(b, p)}

\* an invalid byte that continues the beginning of a well-formed sequence
\* which started at most two bytes before it and then breaks off
Absorbed(b, p) ==
    \E i \in (p - 2)..(p - 1) : \E row \in WellFormedRows :
        /\ i >= 1
        /\ FitsRow(b, i, row, p - i + 1)
        /\ ~StartsAt(b, i)

\* the maximal ill-formed pieces: an invalid byte that starts one
BrokenPieces(b) == {p \in InvalidBytes(b) : ~Absorbed(b, p)}

\* C10 as claimed: every byte outside a valid sequence gives one '?' of its
\* own, so the rendering has as many characters as there are valid code
\* points and invalid bytes together.
C10_OneCharPerInvalidByte ==
    out.op = "to_safe" =>
        Len(out.res) = Cardinality(CodePoints(Rendered)) + Cardinality(InvalidBytes(Rendered))

\* C10 amended: every valid code point gives one character ('?' unless it is
\* an allowed ASCII character) and every maximal ill-formed piece (a lead
\* byte with the continuation bytes that validly follow it before the
\* sequence breaks off, or else a single byte) gives one '?'.
C10_OneCharPerBrokenPiece ==
    out.op = "to_safe" =>
        LET cps == Cardinality(CodePoints(Rendered))
            kept == Cardinality({i \in 1..20 : Rendered[i] \in AllowSet})
            pieces == Cardinality(BrokenPieces(Rendered))
        IN  /\ Len(out.res) = cps + pieces
            /\ Cardinality({k \in 1..Len(out.res) : out.res[k] = 63})
                 = (cps - kept) + pieces

\* a three-byte sequence cut off after two bytes, a two-byte code point, and
\* sixteen continuation bytes on their own: 1 + 1 + 16 characters
C10_Witness ==
    /\ out.op = "to_safe"
    /\ Rendered[1] = 224 /\ Rendered[2] = 160 /\ Rendered[3] = 194 /\ Rendered[4] = 128
    /\ Rendered[5] = 128
    /\ Len(out.res) = 18

(***************************************************************************)
(* Claims about held values, checked under SpecStore.                      *)
(***************************************************************************)

\* C9: no constructor, as_ref, to_safe, Display, copy or drop changes the
\* bytes of a PeerId the caller holds, and a write to one value (a copy, say)
\* changes that value alone.
C9_OnlyTheWrittenValueChanges ==
    [][\A i \in 1..Len(ids) :
          i <= Len(ids') =>
              \/ ids'[i] = ids[i]
              \/ out'.op = "set_byte" /\ out'.of = i]_vars

\* a copy was overwritten and the value it was copied of still has the bytes
\* of the buffer it was made of
C9_Witness ==
    /\ out.op = "set_byte"
    /\ ids[out.of].via = "copy"
    /\ \E j \in 1..Len(ids) :
          /\ j # out.of
          /\ ids[j].via = "from_ref"
          /\ ids[j].val[1] = slice
          /\ ids[j].val # ids[out.of].val

(***************************************************************************)
(* Claim about the traits of PeerId.                                       *)
(***************************************************************************)

\* C7: any two PeerIds the caller holds can be compared with the equality
\* operation of the type (PartialEq), and it compares them byte by byte.
C7_PeerIdHasEquality ==
    \A i, j \in 1..Len(ids) :
        /\ "PartialEq" \in PeerId_derive
        /\ (ids[i].val = ids[j].val) <=> (\A k \in 1..20 : ids[i].val[1][k] = ids[j].val[1][k])

====
